---- MODULE Spec2Model ----
(***************************************************************************)
(* A model of the modularized quic-rpc example (examples/modularize.rs)    *)
(* and of the client handle (src/client.rs): main with its accept loop and *)
(* per-request tasks, the clients of the composed app service, the calc    *)
(* and clock handlers, the clock's ticker and producer tasks, the enum     *)
(* conversions and DeferDrop.                                              *)
(***************************************************************************)
EXTENDS Integers, Sequences, FiniteSets, TLC

\* ------------------------------------------------------------------ bounds
\* Number of calls the clients issue in one run.
NCalls == 2
\* Number of increments the ticker task performs in one run.
MaxTick == 5
\* Number of server-streaming calls among them.
MaxSubs == 1
\* Number of times accept may return an error in one run.
MaxAcceptErrs == 1
\* Capacity of one logical channel's server-to-client direction.
WireCap == 1
\* Number of items of a stream wrapped in a DeferDrop.
MaxItems == 3
\* Width in bits the model gives the i64 operands and sums of add.
WordBits == 8
\* Capacity of the per-subscription channel: flume::bounded(2).
TickChanCap == 2

Calls == 1..NCalls
\* The least and the greatest value of the operand type (i64::MIN, i64::MAX).
IntMin == -(2 ^ (WordBits - 1))
IntMax == 2 ^ (WordBits - 1) - 1
\* The i64 operands the clients pass to add (Add(40, 2) is among them).
Args == {-1, 2, 40}
\* The profiles of a build: overflow checks on (debug) or off (release).
Builds == {"debug", "release"}
\* app::Handler::default(): app_version is String::default().
DefaultAppVersion == ""

\* ---------------------------------------------------------------- messages
\* A value of an enum is its variant's name and the wrapped value; a struct
\* is its name and the tuple of its fields.
Msg(tag, val) == [tag |-> tag, val |-> val]
NoMsg == Msg("None", <<>>)
Ok(v) == Msg("Ok", v)
Err(e) == Msg("Err", e)

AddRequest(a, b) == Msg("AddRequest", <<a, b>>)
AddResponse(n) == Msg("AddResponse", <<n>>)
TickRequest == Msg("TickRequest", <<>>)
TickResponse(t) == Msg("TickResponse", <<t>>)
AppVersionRequest == Msg("AppVersionRequest", <<>>)
AppVersionResponse(s) == Msg("AppVersionResponse", <<s>>)

\* derive(From) on an enum: the wrapped value becomes the variant's payload.
From(variant, v) == Msg(variant, v)

\* derive(TryInto) on an enum: the payload when the value is that variant,
\* an error for every other variant.
TryIntoIgnoresVariant(variant, v) == Ok(v.val)
TryIntoKeepsWrapper(variant, v) ==
    IF v.tag = variant THEN Ok(v) ELSE Err("MappingError")
TryInto(variant, v) ==
    IF v.tag = variant THEN Ok(v.val) ELSE Err("MappingError")

\* The variant of its service's enum that a message struct is wrapped in.
VariantOf(m) ==
    CASE m.tag \in {"AddRequest", "AddResponse"} -> "Add"
      [] m.tag \in {"TickRequest", "TickResponse"} -> "Tick"
      [] m.tag \in {"AppVersionRequest", "AppVersionResponse"} -> "AppVersion"

\* ------------------------------------------------------------ client handle
\* A client handle is the list of enum variants its connection maps through,
\* outermost first: RpcClient::new gives the empty list, map adds one level,
\* the variant of the current service's enum that wraps the next service's.
RpcClientNew == <<>>
RpcClientMap(client, variant) == Append(client, variant)
\* Clone for RpcClient: the clone holds a clone of the source, a handle to the
\* same connection with the same mapping.
RpcClientClone(client) == client

\* MappedConnection, send side: every outbound request is widened level by
\* level, innermost first.
RECURSIVE MappedSend(_, _)
MappedSend(client, req) ==
    IF client = <<>> THEN req
    ELSE From(Head(client), MappedSend(Tail(client), req))

\* MappedConnection, receive side: every inbound response is narrowed level
\* by level, outermost first; the first failure is the item's error.
RECURSIVE MappedRecv(_, _)
MappedRecv(client, res) ==
    IF client = <<>> THEN Ok(res)
    ELSE LET r == TryInto(Head(client), res)
         IN  IF r.tag = "Err" THEN r ELSE MappedRecv(Tail(client), r.val)

\* The clients the composed app client is built from.
\* app::Client::new makes the handle of the connection, RpcClient::new(conn),
\* and gives a clone of it to iroh::Client::new.
AppClient == RpcClientNew
\* iroh::Client::new wraps what it is given with RpcClient::new: no mapping
\* is added to the app handle's clone.
IrohClient == RpcClientClone(AppClient)
\* calc::Client::new and clock::Client::new call map once on the clone they
\* are given: the one mapping on the way from the app handle.
CalcClient == RpcClientMap(RpcClientClone(IrohClient), "Calc")
ClockClient == RpcClientMap(RpcClientClone(IrohClient), "Clock")
\* A client on a connection typed for CalcService, and one on a connection
\* typed for ClockService: RpcClient::new on that connection.
DirectCalcClient == RpcClientNew
DirectClockClient == RpcClientNew

\* rpc / server_streaming, request side: the message is turned into the
\* client's service request and sent through the connection.
ClientRequest(client, m) == MappedSend(client, From(VariantOf(m), m))
\* rpc / server_streaming, response side: the received value is narrowed to
\* the client's service response and then to the message's response type.
ClientResponse(client, m, res) ==
    LET r == MappedRecv(client, res)
    IN  IF r.tag = "Err" THEN r ELSE TryInto(VariantOf(m), r.val)

\* ------------------------------------------------------------ server channel
\* The reply path of one accepted request is the list of enum variants its
\* responses are widened through, outermost first: none on the channel the
\* endpoint accepted.
RpcChannelNew == <<>>

\* Sending message m's response on a channel: into the channel's service
\* response, then widened level by level, innermost first.
RECURSIVE ChanWiden(_, _)
ChanWiden(chan, res) ==
    IF chan = <<>> THEN res
    ELSE From(Head(chan), ChanWiden(Tail(chan), res))
ChanResponse(chan, m) == ChanWiden(chan, From(VariantOf(m), m))

\* ------------------------------------------------------------------ handlers
\* What a handler's dispatch entry point resolves a request to: the dispatch
\* primitive, the leaf handler, the message, the channel it answers on and
\* the handlers passed through.
Dispatch(pattern, handler, req, chan, trace) ==
    [pattern |-> pattern, handler |-> handler, req |-> req, chan |-> chan,
     trace |-> trace]
NoDispatch == Dispatch("none", "none", NoMsg, <<>>, <<>>)

\* calc::Handler::handle_rpc_request
CalcHandleRpcRequest(req, chan, trace) ==
    Dispatch("rpc", "on_add", req.val, chan, Append(trace, "calc"))

\* clock::Handler::handle_rpc_request
ClockHandleRpcRequest(req, chan, trace) ==
    Dispatch("server_streaming", "on_tick", req.val, chan, Append(trace, "clock"))

\* main: the one server, of the composed app service, on the one connection.
MainEndpoint == "app"
\* The calc service and the clock service each served by its own handler on
\* a connection typed for that service.
DirectCalcEndpoint == "calc"
DirectClockEndpoint == "clock"
Endpoints == {MainEndpoint, DirectCalcEndpoint, DirectClockEndpoint}

\* The entry point of the handler a direct endpoint serves, on the channel
\* the endpoint accepted.
DirectHandleRpcRequest(endpoint, req) ==
    IF endpoint = DirectCalcEndpoint
    THEN CalcHandleRpcRequest(req, RpcChannelNew, <<>>)
    ELSE ClockHandleRpcRequest(req, RpcChannelNew, <<>>)

\* The outcome of a handler that panicked: it has no response.
Panic == Msg("Panic", <<>>)

\* i64 arithmetic: a sum that does not fit the type wraps around.
Overflows(n) == n < IntMin \/ n > IntMax
WrappingSum(n) == ((n - IntMin) % (2 ^ WordBits)) + IntMin

\* calc::Handler::on_add: req.0 + req.1.  A sum that overflows panics where
\* overflow checks are on and wraps where they are off.
OnAdd(req, profile) ==
    LET sum == req.val[1] + req.val[2]
    IN  IF ~Overflows(sum) THEN AddResponse(sum)
        ELSE IF profile = "debug" THEN Panic
        ELSE AddResponse(WrappingSum(sum))

\* --------------------------------------------------------------------- state
VARIABLES
    cl,       \* per call, the client's side: state, the call made, result
    obs,      \* per call, the items the client's produced sequence yielded
    inbound,  \* per endpoint, the channels opened and not yet accepted
    wire,     \* per call, the responses sent and not yet received
    sv,       \* per call, the server task spawned for the accepted request
    sub,      \* per call, the subscription on_tick created for it: the
              \* position of its on_tick0, the counter's value when on_tick
              \* was called, the value read, the channel, whether the
              \* receiver lives, the ticks emitted, the ticks taken from
              \* the stream, the read guard, the wake that woke it last and
              \* the wakes that reached it after its client dropped
    tick,     \* clock::Handler.tick, the shared counter
    ticker,   \* the task spawned by clock::Handler::new: position, wakes broadcast
    loop,     \* per endpoint, the position of the accept loop
    warnings, \* how many "server accept failed" warnings were logged
    cv,       \* the value a conversion is applied to, and the results
    dd,       \* a DeferDrop stream, its attached item and what it yielded
    build     \* the profile the program was built with

vars == <<cl, obs, inbound, wire, sv, sub, tick, ticker, loop, warnings, cv, dd, build>>

NoCall == [client |-> <<>>, endpoint |-> "none", msg |-> NoMsg]
NoClient == [st |-> "idle", call |-> NoCall, res |-> NoMsg]
NoTask == [pc |-> "none", endpoint |-> "none", req |-> NoMsg, d |-> NoDispatch, out |-> NoMsg,
           sent |-> 0, closed |-> FALSE, invoked |-> <<>>, dispatched |-> 0]
NoSub == [pc |-> "none", at |-> 0, val |-> 0, chan |-> <<>>, rx |-> FALSE,
          produced |-> <<>>, taken |-> <<>>, wakes |-> 0,
          guard |-> FALSE, wokenBy |-> 0]
NoConv == [op |-> "none", variants |-> <<>>, origin |-> <<>>, input |-> NoMsg,
           wide |-> NoMsg, out |-> NoMsg]

\* A stream as its consumer sees it: the items it still has, and whether it
\* ends after them or stays pending.
Stream(items, ends) == [items |-> items, ends |-> ends]
Some(x) == [tag |-> "Some", val |-> x]
None == [tag |-> "None", val |-> 0]
Pending == [tag |-> "Pending", val |-> 0]
StreamPoll(s) ==
    IF s.items # <<>> THEN Some(Head(s.items)) ELSE IF s.ends THEN None ELSE Pending
StreamAfterPoll(s) == [s EXCEPT !.items = IF @ = <<>> THEN @ ELSE Tail(@)]

\* struct DeferDrop<S: Stream, X>(pub S, pub X)
DeferDrop(s, x) == [s |-> s, x |-> x]

\* poll_next: self.project().0.poll_next(cx)
DeferPollSkipsItem(d) == StreamPoll(StreamAfterPoll(d.s))
DeferPollNext(d) == StreamPoll(d.s)

NoDefer == [exists |-> FALSE, alive |-> FALSE, d |-> DeferDrop(Stream(<<>>, FALSE), "none"),
            inner |-> Stream(<<>>, FALSE), polled |-> <<>>]

\* The pairs of operands of the Add requests issued: sums that fit the type,
\* and one that does not.
AddPairs == {<<40, 2>>, <<-1, 2>>, <<IntMax, 1>>}

\* The calls the clients make on main's connection: app_version, add and tick
\* through the composed app client.
ClientCalls ==
    {[client |-> AppClient, endpoint |-> MainEndpoint, msg |-> AppVersionRequest],
     [client |-> ClockClient, endpoint |-> MainEndpoint, msg |-> TickRequest]}
    \cup {[client |-> CalcClient, endpoint |-> MainEndpoint, msg |-> AddRequest(p[1], p[2])] :
            p \in AddPairs}
\* The same Add requests on a connection typed for CalcService, and the Tick
\* request on a connection typed for ClockService.
DirectCalls ==
    {[client |-> DirectCalcClient, endpoint |-> DirectCalcEndpoint,
      msg |-> AddRequest(p[1], p[2])] : p \in AddPairs}
DirectTickCalls ==
    {[client |-> DirectClockClient, endpoint |-> DirectClockEndpoint, msg |-> TickRequest]}

Init ==
    /\ cl = [c \in Calls |-> NoClient]
    /\ obs = [c \in Calls |-> <<>>]
    /\ inbound = [e \in Endpoints |-> <<>>]
    /\ wire = [c \in Calls |-> <<>>]
    /\ sv = [c \in Calls |-> NoTask]
    /\ sub = [c \in Calls |-> NoSub]
    /\ tick = 0
    /\ ticker = [pc |-> "sleep", wakes |-> 0]
    /\ loop = [e \in Endpoints |-> "accept"]
    /\ warnings = 0
    /\ cv = NoConv
    /\ dd = NoDefer
    /\ build \in Builds

\* The client's receive half of call c's channel has been released.
ClientGone(c) == cl[c].st \in {"dropped", "done", "ended"}

\* ------------------------------------------------------------ client actions
\* rpc / server_streaming: every call opens a logical channel of its own on
\* the connection its client shares with the client's clones.
OpenChannel(c) == c

\* rpc / server_streaming: open a channel and send the request on it.
Call(c, kinds) ==
    /\ cl[c].st = "idle"
    /\ c > 1 => cl[c - 1].st # "idle"
    /\ \E k \in kinds :
        /\ k.msg = TickRequest =>
             Cardinality({d \in Calls : cl[d].call.msg = TickRequest}) < MaxSubs
        /\ cl' = [cl EXCEPT ![c] =
                    [st |-> IF k.msg = TickRequest THEN "streaming" ELSE "sent",
                     call |-> k, res |-> NoMsg]]
        /\ inbound' = [inbound EXCEPT ![k.endpoint] =
                         Append(@, [id |-> OpenChannel(c),
                                    req |-> ClientRequest(k.client, k.msg)])]
    /\ UNCHANGED <<obs, wire, sv, sub, tick, ticker, loop, warnings, cv, dd, build>>

\* The transport's report of the peer having ended the stream, as it
\* reaches the client in place of a message.
EndOfStream == Msg("End", <<>>)
ConnectionClosed == Err("ConnectionClosed")
\* The server's half of a channel is dropped: a client still holding its half
\* finds the stream ended behind the messages already sent.
PeerClosed(q, gone) == IF gone THEN q ELSE Append(q, EndOfStream)

\* rpc, response side: the first thing received decides the result.
RpcResult(client, m, h) ==
    IF h.tag = "End" THEN ConnectionClosed ELSE ClientResponse(client, m, h)

\* app_version / add: `self.client.rpc(..).await?` returns the error to the
\* caller; the call is over.
RpcOnError == "done"

\* rpc: the one response arrives, is narrowed, and the channel is closed.
RecvResponse(c) ==
    /\ cl[c].st = "sent"
    /\ wire[c] # <<>>
    /\ LET r == RpcResult(cl[c].call.client, cl[c].call.msg, Head(wire[c]))
       IN  cl' = [cl EXCEPT ![c].st = IF r.tag = "Err" THEN RpcOnError ELSE "done",
                            ![c].res = r]
    /\ wire' = [wire EXCEPT ![c] = Tail(@)]
    /\ UNCHANGED <<obs, inbound, sv, sub, tick, ticker, loop, warnings, cv, dd, build>>

\* The caller drops the pending rpc future: the channel is released.
Abandon(c) ==
    /\ cl[c].st = "sent"
    /\ cl' = [cl EXCEPT ![c].st = "dropped"]
    /\ wire' = [wire EXCEPT ![c] = <<>>]
    /\ UNCHANGED <<obs, inbound, sv, sub, tick, ticker, loop, warnings, cv, dd, build>>

\* server_streaming: an inbound message becomes an item, narrowed to the
\* message's response type.
StreamItem(client, m, h) == ClientResponse(client, m, h)

\* tick: res.map_ok(|r| r.tick).map_err(anyhow::Error::from)
TickItem(r) == IF r.tag = "Ok" THEN Ok(r.val.val[1]) ELSE r

\* client_demo: `let tick = tick?;` - an error item ends the loop and the
\* function, and the stream is dropped with it.
ConsumerOnError == "dropped"
\* client_demo: `while let Some(tick) = stream.next().await` - the end of the
\* stream ends the loop; the function returns Ok(()) and drops the stream.
ConsumerOnEnd == "ended"

\* server_streaming: the next inbound message becomes the next item of the
\* produced sequence, tick mapping each response to its tick; the end of the
\* inbound stream is the end of the sequence and yields no item.
RecvItem(c) ==
    /\ cl[c].st = "streaming"
    /\ wire[c] # <<>>
    /\ IF Head(wire[c]) = EndOfStream
       THEN /\ cl' = [cl EXCEPT ![c].st = ConsumerOnEnd]
            /\ wire' = [wire EXCEPT ![c] = <<>>]
            /\ UNCHANGED obs
       ELSE LET item == TickItem(StreamItem(cl[c].call.client, cl[c].call.msg,
                                            Head(wire[c])))
                st == IF item.tag = "Err" THEN ConsumerOnError ELSE "streaming"
            IN  /\ obs' = [obs EXCEPT ![c] = Append(@, item)]
                /\ cl' = [cl EXCEPT ![c].st = st]
                /\ wire' = [wire EXCEPT ![c] = IF st = "dropped" THEN <<>> ELSE Tail(@)]
    /\ UNCHANGED <<inbound, sv, sub, tick, ticker, loop, warnings, cv, dd, build>>

\* The consumer drops the produced sequence: the channel is released.
DropStream(c) ==
    /\ cl[c].st = "streaming"
    /\ cl' = [cl EXCEPT ![c].st = "dropped"]
    /\ wire' = [wire EXCEPT ![c] = <<>>]
    /\ UNCHANGED <<obs, inbound, sv, sub, tick, ticker, loop, warnings, cv, dd, build>>

\* ------------------------------------------------------------ the accept loop
\* main: what the loop does after accept returned an error (warn, loop on).
AcceptLoopOnErr == "accept"

\* main: accept returned a request and its channel; a task is spawned for it.
Accept(e) ==
    /\ loop[e] = "accept"
    /\ inbound[e] # <<>>
    /\ LET a == Head(inbound[e])
       IN  sv' = [sv EXCEPT ![a.id] =
                    [NoTask EXCEPT !.pc = "spawned", !.endpoint = e, !.req = a.req]]
    /\ inbound' = [inbound EXCEPT ![e] = Tail(@)]
    /\ UNCHANGED <<cl, obs, wire, sub, tick, ticker, loop, warnings, cv, dd, build>>

\* main: accept returned an error; it is logged.
AcceptErr(e) ==
    /\ loop[e] = "accept"
    /\ warnings < MaxAcceptErrs
    /\ warnings' = warnings + 1
    /\ loop' = [loop EXCEPT ![e] = AcceptLoopOnErr]
    /\ UNCHANGED <<cl, obs, inbound, wire, sv, sub, tick, ticker, cv, dd, build>>

\* ------------------------------------------------------- the per-request task
\* on_tick: the subscription's channel is created and on_tick0 is spawned;
\* `now` is the counter's value at the call.
OnTick(req, now) == [NoSub EXCEPT !.pc = "read", !.rx = TRUE, !.at = now]

\* main: the task spawned for an accepted request.  Line 28 calls
\* handle_rpc_request and never awaits what it returns: the future is dropped
\* unpolled, so no handler runs and nothing is sent; the request, the channel
\* and the handler clone moved into the future are dropped with it, and the
\* task ends.
TaskDispatch(c) ==
    /\ sv[c].pc = "spawned"
    /\ sv[c].endpoint = MainEndpoint
    /\ sv' = [sv EXCEPT ![c].pc = "done", ![c].closed = TRUE]
    /\ wire' = [wire EXCEPT ![c] = PeerClosed(@, ClientGone(c))]
    /\ UNCHANGED <<cl, obs, inbound, sub, tick, ticker, loop, warnings, cv, dd, build>>

\* A direct endpoint: the task spawned for an accepted request awaits the
\* handler's handle_rpc_request.  rpc invokes on_add and holds its response
\* for the send; server_streaming invokes on_tick and starts forwarding.  A
\* handler that panics ends the task there: nothing is sent and the channel
\* is dropped.
DirectDispatch(c) ==
    /\ sv[c].pc = "spawned"
    /\ sv[c].endpoint # MainEndpoint
    /\ LET d == DirectHandleRpcRequest(sv[c].endpoint, sv[c].req)
           r == IF d.pattern = "rpc" THEN OnAdd(d.req, build) ELSE NoMsg
       IN  IF r = Panic
           THEN /\ sv' = [sv EXCEPT ![c].d = d,
                                    ![c].dispatched = @ + 1,
                                    ![c].invoked = Append(@, d.handler),
                                    ![c].pc = "panicked",
                                    ![c].closed = TRUE]
                /\ wire' = [wire EXCEPT ![c] = PeerClosed(@, ClientGone(c))]
                /\ UNCHANGED sub
           ELSE /\ sv' = [sv EXCEPT ![c].d = d,
                                    ![c].dispatched = @ + 1,
                                    ![c].invoked = Append(@, d.handler),
                                    ![c].out = IF d.pattern = "rpc"
                                               THEN ChanResponse(d.chan, r)
                                               ELSE NoMsg,
                                    ![c].pc = IF d.pattern = "rpc" THEN "rpc_send"
                                              ELSE "fwd_next"]
                /\ sub' = [sub EXCEPT ![c] = IF d.pattern = "rpc" THEN @
                                             ELSE OnTick(d.req, tick)]
                /\ UNCHANGED wire
    /\ UNCHANGED <<cl, obs, inbound, tick, ticker, loop, warnings, cv, dd, build>>

\* A caller invokes on_tick itself and holds the stream it returns; at most
\* `limit` callers do.
OnTickCall(c, limit) ==
    /\ sub[c].pc = "none"
    /\ sv[c].pc = "none"
    /\ c > 1 => sub[c - 1].pc # "none"
    /\ Cardinality({d \in Calls : sub[d].pc # "none"}) < limit
    /\ sub' = [sub EXCEPT ![c] = OnTick(TickRequest, tick)]
    /\ UNCHANGED <<cl, obs, inbound, wire, sv, tick, ticker, loop, warnings, cv, dd, build>>

\* rx.into_stream(): the stream's consumer polls it and gets the oldest item
\* queued.
StreamNext(c) ==
    /\ sv[c].pc = "none"
    /\ sub[c].rx
    /\ sub[c].chan # <<>>
    /\ sub' = [sub EXCEPT ![c].chan = Tail(@),
                          ![c].taken = Append(@, Head(sub[c].chan).val[1])]
    /\ UNCHANGED <<cl, obs, inbound, wire, sv, tick, ticker, loop, warnings, cv, dd, build>>

\* The stream's consumer drops it, and the receiver with it.
StreamDropped(c) ==
    /\ sv[c].pc = "none"
    /\ sub[c].rx
    /\ sub' = [sub EXCEPT ![c].rx = FALSE, ![c].chan = <<>>]
    /\ UNCHANGED <<cl, obs, inbound, wire, sv, tick, ticker, loop, warnings, cv, dd, build>>

\* rpc: the response is sent and the channel closed; the send fails when the
\* client has released the channel, and the task ends with the error.
RpcSend(c) ==
    /\ sv[c].pc = "rpc_send"
    /\ IF ClientGone(c)
       THEN /\ sv' = [sv EXCEPT ![c].pc = "failed", ![c].closed = TRUE]
            /\ UNCHANGED wire
       ELSE /\ sv' = [sv EXCEPT ![c].pc = "done", ![c].closed = TRUE,
                                ![c].sent = @ + 1]
            /\ wire' = [wire EXCEPT ![c] = Append(@, sv[c].out)]
    /\ UNCHANGED <<cl, obs, inbound, sub, tick, ticker, loop, warnings, cv, dd, build>>

\* server_streaming: the next item is requested from the handler's sequence.
\* (on_tick0 ends only when its send fails, so the sequence never ends while
\* the forwarding holds its receiver.)
FwdMayTake(t) == t.pc = "fwd_next"

FwdNext(c) ==
    /\ FwdMayTake(sv[c])
    /\ sub[c].chan # <<>>
    /\ sv' = [sv EXCEPT ![c].pc = "fwd_send",
                        ![c].out = ChanResponse(sv[c].d.chan, Head(sub[c].chan))]
    /\ sub' = [sub EXCEPT ![c].chan = Tail(@),
                          ![c].taken = Append(@, Head(sub[c].chan).val[1])]
    /\ UNCHANGED <<cl, obs, inbound, wire, tick, ticker, loop, warnings, cv, dd, build>>

\* server_streaming: the item is sent on the channel; a failed send ends the
\* forwarding, which drops the handler's sequence and closes the channel.
FwdSend(c) ==
    /\ sv[c].pc = "fwd_send"
    /\ IF ClientGone(c)
       THEN /\ sv' = [sv EXCEPT ![c].pc = "failed", ![c].closed = TRUE]
            /\ sub' = [sub EXCEPT ![c].rx = FALSE, ![c].chan = <<>>]
            /\ UNCHANGED wire
       ELSE /\ Len(wire[c]) < WireCap
            /\ sv' = [sv EXCEPT ![c].pc = "fwd_next", ![c].sent = @ + 1]
            /\ wire' = [wire EXCEPT ![c] = Append(@, sv[c].out)]
            /\ UNCHANGED sub
    /\ UNCHANGED <<cl, obs, inbound, tick, ticker, loop, warnings, cv, dd, build>>

\* ------------------------------------------------------ the producer, on_tick0
\* let tick = *self.tick.read().unwrap()
ReadTickStale(t) == 0
ReadTick(t) == t

\* tx.send_async(..): the item is queued behind the items already queued.
SendAsyncJumpsQueue(q, item) == <<item>> \o q
SendAsync(q, item) == Append(q, item)

\* tx.send_async(..).await?: a failed send ends on_tick0 with the error.
SendErrorReturned == "done"

\* self.tick.read(): on_tick0 takes the counter's lock as a reader (the
\* ticker holds it as the writer only within its own write step).
ProdLock(c) ==
    /\ sub[c].pc = "read"
    /\ sub' = [sub EXCEPT ![c].pc = "locked", ![c].guard = TRUE]
    /\ UNCHANGED <<cl, obs, inbound, wire, sv, tick, ticker, loop, warnings, cv, dd, build>>

\* The read guard of self.tick.read() is a temporary of the `let` statement:
\* it is released when the statement ends, before the send is awaited.
ReadGuardKeptAcrossSend == TRUE
ReadGuardAfterRead == FALSE

\* The counter is copied under the guard and the statement ends.
ProdRead(c) ==
    /\ sub[c].pc = "locked"
    /\ sub' = [sub EXCEPT ![c].pc = "send", ![c].val = ReadTick(tick),
                          ![c].guard = ReadGuardAfterRead]
    /\ UNCHANGED <<cl, obs, inbound, wire, sv, tick, ticker, loop, warnings, cv, dd, build>>

\* flume::bounded(2): the channel on_tick creates is full with two items.
ChanNeverFull(q) == FALSE
ChanFull(q) == Len(q) >= TickChanCap

\* The send completes when the channel has room, fails when the receiver has
\* been dropped, and is suspended while the channel is full.
ProdSend(c) ==
    /\ sub[c].pc = "send"
    /\ IF ~sub[c].rx
       THEN sub' = [sub EXCEPT ![c].pc = SendErrorReturned]
       ELSE /\ ~ChanFull(sub[c].chan)
            /\ sub' = [sub EXCEPT
                         ![c].pc = "notified",
                         ![c].chan = SendAsync(@, TickResponse(sub[c].val)),
                         ![c].produced = Append(@, sub[c].val)]
    /\ UNCHANGED <<cl, obs, inbound, wire, sv, tick, ticker, loop, warnings, cv, dd, build>>

\* self.ontick.notified(): from here on a notify_waiters wakes on_tick0.
ProdNotified(c) ==
    /\ sub[c].pc = "notified"
    /\ sub' = [sub EXCEPT ![c].pc = "wait"]
    /\ UNCHANGED <<cl, obs, inbound, wire, sv, tick, ticker, loop, warnings, cv, dd, build>>

\* ---------------------------------------------------------------- the ticker
\* *h2.tick.write().unwrap() += 1
TickIncrByTwo(t) == t + 2
TickWraps(t) == (t + 1) % 2
TickIncr(t) == t + 1

\* The sleep is over: the counter is incremented under the write lock, which
\* is acquired once no reader holds the lock.
TickWrite ==
    /\ ticker.pc = "sleep"
    /\ tick < MaxTick
    /\ \A c \in Calls : ~sub[c].guard
    /\ tick' = TickIncr(tick)
    /\ ticker' = [ticker EXCEPT !.pc = "notify"]
    /\ UNCHANGED <<cl, obs, inbound, wire, sv, sub, loop, warnings, cv, dd, build>>

\* h2.ontick.notify_waiters(): every on_tick0 waiting in notified() is woken.
TickNotify ==
    /\ ticker.pc = "notify"
    /\ ticker' = [pc |-> "sleep", wakes |-> ticker.wakes + 1]
    /\ sub' = [c \in Calls |->
                 [sub[c] EXCEPT
                    !.pc = IF @ = "wait" THEN "read" ELSE @,
                    !.wokenBy = IF sub[c].pc = "wait" THEN ticker.wakes + 1 ELSE @,
                    !.wakes = IF cl[c].st = "dropped" /\ sub[c].pc = "wait"
                              THEN @ + 1 ELSE @]]
    /\ UNCHANGED <<cl, obs, inbound, wire, sv, tick, loop, warnings, cv, dd, build>>

\* ------------------------------------------------------------- specification
\* The calls of the two interaction patterns.
TickCalls == {k \in ClientCalls \cup DirectTickCalls : k.msg = TickRequest}
RpcCalls == ClientCalls \ TickCalls

\* The program within the ticker's first sleep: the client's calls on main's
\* connection, main's accept loop and the tasks it spawns.
NextCalls ==
    \/ \E c \in Calls : Call(c, ClientCalls)
    \/ \E c \in Calls : RecvResponse(c)
    \/ \E c \in Calls : Abandon(c)
    \/ \E c \in Calls : RecvItem(c)
    \/ \E c \in Calls : DropStream(c)
    \/ \E c \in Calls : TaskDispatch(c)
    \/ Accept(MainEndpoint)
    \/ AcceptErr(MainEndpoint)

SpecCalls == Init /\ [][NextCalls]_vars

\* The accept loop and the per-request tasks are scheduled fairly by the
\* runtime; a client awaiting a response takes what arrives.
SpecCallsFair ==
    /\ SpecCalls
    /\ WF_vars(Accept(MainEndpoint))
    /\ \A c \in Calls : WF_vars(TaskDispatch(c)) /\ WF_vars(RecvResponse(c))

\* The program: the same with the ticker of the app handler's clock.
Next ==
    \/ NextCalls
    \/ TickWrite
    \/ TickNotify

Spec == Init /\ [][Next]_vars

\* The calc handler alone: Add requests on a connection typed for
\* CalcService, served by a task that awaits the calc handler.
NextCalc ==
    \/ \E c \in Calls : Call(c, DirectCalls)
    \/ \E c \in Calls : RecvResponse(c)
    \/ \E c \in Calls : Abandon(c)
    \/ \E c \in Calls : DirectDispatch(c)
    \/ \E c \in Calls : RpcSend(c)
    \/ Accept(DirectCalcEndpoint)

SpecCalc == Init /\ [][NextCalc]_vars

\* Main's connection and the connection typed for CalcService side by side.
NextDirect ==
    \/ NextCalls
    \/ NextCalc

SpecDirect == Init /\ [][NextDirect]_vars

\* The producer of a subscription: on_tick0, from the read of the counter to
\* the wait for the next wake.
Producer(c) ==
    \/ ProdLock(c)
    \/ ProdRead(c)
    \/ ProdSend(c)
    \/ ProdNotified(c)

\* The clock handler alone: callers of on_tick that consume, or drop, the
\* stream it returns, the on_tick0 tasks and the ticker.
NextClock ==
    \/ \E c \in Calls : OnTickCall(c, MaxSubs)
    \/ \E c \in Calls : StreamNext(c)
    \/ \E c \in Calls : StreamDropped(c)
    \/ \E c \in Calls : Producer(c)
    \/ TickWrite
    \/ TickNotify

SpecClock == Init /\ [][NextClock]_vars

\* The clock handler with subscribers whose streams are held and no longer
\* read: every caller of on_tick keeps the stream and takes nothing from it.
NextStalled ==
    \/ \E c \in Calls : OnTickCall(c, NCalls)
    \/ \E c \in Calls : Producer(c)
    \/ TickWrite
    \/ TickNotify

SpecStalled == Init /\ [][NextStalled]_vars

\* The same with the ticker task scheduled (its sleep comes to an end) and a
\* reader of the counter finishing its statement.
SpecStalledFair ==
    /\ SpecStalled
    /\ WF_vars(TickWrite)
    /\ WF_vars(TickNotify)
    /\ \A c \in Calls : WF_vars(ProdRead(c))

\* The clock handler behind a connection typed for ClockService: tick
\* calls, the task that awaits the clock handler and forwards the stream,
\* the on_tick0 tasks and the ticker.
NextTick ==
    \/ \E c \in Calls : Call(c, DirectTickCalls)
    \/ \E c \in Calls : RecvItem(c)
    \/ \E c \in Calls : DropStream(c)
    \/ \E c \in Calls : DirectDispatch(c)
    \/ \E c \in Calls : FwdNext(c)
    \/ \E c \in Calls : FwdSend(c)
    \/ \E c \in Calls : Producer(c)
    \/ Accept(DirectClockEndpoint)
    \/ TickWrite
    \/ TickNotify

SpecTick == Init /\ [][NextTick]_vars

\* A request task of main holds a clone of the app handler (and of the clock
\* handler in it) from its spawn until line 28 has moved it into the future
\* and dropped it.
TaskHoldsHandler(t) == t.pc = "spawned"

\* The clones of the app handler (and of the clock handler in it) that exist
\* outside the ticker task: the accept loop's, the request tasks', and the
\* one on_tick moves into each on_tick0 task.
LiveHandlers ==
    (IF loop[MainEndpoint] = "accept" THEN 1 ELSE 0)
    + Cardinality({c \in Calls : sv[c].endpoint = MainEndpoint /\ TaskHoldsHandler(sv[c])})
    + Cardinality({c \in Calls : sub[c].pc \in {"read", "locked", "send", "notified", "wait"}})

\* The owner of the app handler ends and drops it (the task of the accept
\* loop is cancelled); no further request is accepted.
DropHandler ==
    /\ loop[MainEndpoint] = "accept"
    /\ loop' = [loop EXCEPT ![MainEndpoint] = "stopped"]
    /\ UNCHANGED <<cl, obs, inbound, wire, sv, sub, tick, ticker, warnings, cv, dd, build>>

\* The program with an owner that can drop the handler.
NextHandlerDrop ==
    \/ Next
    \/ DropHandler

SpecHandlerDrop == Init /\ [][NextHandlerDrop]_vars

\* ---------------------------------------------------------------- conversions
\* The message values of the services.
AddRequests == {AddRequest(a, b) : a \in Args, b \in Args}
AddResponses == {AddResponse(a + b) : a \in Args, b \in Args}
TickResponses == {TickResponse(t) : t \in 0..MaxTick}
CalcValues == {From("Add", m) : m \in AddRequests \cup AddResponses}
ClockValues == {From("Tick", m) : m \in {TickRequest} \cup TickResponses}
IrohValues ==
    {From("Calc", v) : v \in CalcValues} \cup {From("Clock", v) : v \in ClockValues}
AppVersionValues == {AppVersionRequest, AppVersionResponse(DefaultAppVersion)}

\* Every constituent value with the variants that wrap it into an aggregate,
\* outermost first: a message into its service's enum, a service's enum into
\* its parent's, and calc and clock through iroh into app.
Constituents ==
    {[variants |-> <<VariantOf(m)>>, value |-> m] :
        m \in AddRequests \cup AddResponses \cup {TickRequest} \cup TickResponses
              \cup AppVersionValues}
    \cup {[variants |-> <<"Calc">>, value |-> v] : v \in CalcValues}
    \cup {[variants |-> <<"Clock">>, value |-> v] : v \in ClockValues}
    \cup {[variants |-> <<"Iroh">>, value |-> v] : v \in IrohValues}
    \cup {[variants |-> <<"Iroh", "Calc">>, value |-> v] : v \in CalcValues}
    \cup {[variants |-> <<"Iroh", "Clock">>, value |-> v] : v \in ClockValues}

\* Every response a server channel can send, with the variants it was widened
\* through: on the app endpoint, and on an endpoint typed for IrohService.
SentResponses ==
    {[origin |-> <<"AppVersion">>,
      value |-> ChanResponse(<<>>, AppVersionResponse(DefaultAppVersion))]}
    \cup {[origin |-> <<"Iroh", "Calc", "Add">>,
           value |-> ChanResponse(<<"Iroh", "Calc">>, m)] : m \in AddResponses}
    \cup {[origin |-> <<"Iroh", "Clock", "Tick">>,
           value |-> ChanResponse(<<"Iroh", "Clock">>, m)] : m \in TickResponses}
    \cup {[origin |-> <<"Calc", "Add">>,
           value |-> ChanResponse(<<"Calc">>, m)] : m \in AddResponses}
    \cup {[origin |-> <<"Clock", "Tick">>,
           value |-> ChanResponse(<<"Clock">>, m)] : m \in TickResponses}

\* The mapped clients of a connection whose responses start with `first`:
\* the handles map builds on a connection of the app service (for iroh, and
\* from that for calc and clock) and on one of the iroh service.
MappedClients(first) ==
    IF first \in {"Iroh", "AppVersion"}
    THEN {RpcClientMap(RpcClientNew, "Iroh"),
          RpcClientMap(RpcClientMap(RpcClientNew, "Iroh"), "Calc"),
          RpcClientMap(RpcClientMap(RpcClientNew, "Iroh"), "Clock")}
    ELSE {RpcClientMap(RpcClientNew, "Calc"), RpcClientMap(RpcClientNew, "Clock")}

InitConv ==
    /\ Init!1 /\ Init!2 /\ Init!3 /\ Init!4 /\ Init!5
    /\ Init!6 /\ Init!7 /\ Init!8 /\ Init!9 /\ Init!10 /\ Init!12 /\ Init!13
    /\ \/ \E k \in Constituents :
            cv = [NoConv EXCEPT !.op = "constituent", !.variants = k.variants,
                                !.input = k.value]
       \/ \E r \in SentResponses : \E client \in MappedClients(r.origin[1]) :
            cv = [NoConv EXCEPT !.op = "arrived", !.variants = client,
                                !.origin = r.origin, !.input = r.value]

\* The constituent is wrapped into the aggregate.
ConvWiden ==
    /\ cv.op = "constituent"
    /\ cv' = [cv EXCEPT !.op = "wide", !.wide = MappedSend(cv.variants, cv.input)]
    /\ UNCHANGED <<cl, obs, inbound, wire, sv, sub, tick, ticker, loop, warnings, dd, build>>

\* The aggregate is narrowed back.
ConvNarrow ==
    /\ cv.op = "wide"
    /\ cv' = [cv EXCEPT !.op = "narrowed", !.out = MappedRecv(cv.variants, cv.wide)]
    /\ UNCHANGED <<cl, obs, inbound, wire, sv, sub, tick, ticker, loop, warnings, dd, build>>

\* The response arrives on the mapped client's receive path.
ConvRecv ==
    /\ cv.op = "arrived"
    /\ cv' = [cv EXCEPT !.op = "received", !.out = MappedRecv(cv.variants, cv.input)]
    /\ UNCHANGED <<cl, obs, inbound, wire, sv, sub, tick, ticker, loop, warnings, dd, build>>

NextConv == ConvWiden \/ ConvNarrow \/ ConvRecv

SpecConv == InitConv /\ [][NextConv]_vars

\* ------------------------------------------------------------------ DeferDrop
\* The streams wrapped: up to MaxItems items, ending or not.
ItemValues == {1, 2}
ItemSeqs == UNION {[1..k -> ItemValues] : k \in 0..MaxItems}
InnerStreams == {Stream(items, ends) : items \in ItemSeqs, ends \in BOOLEAN}

\* A DeferDrop is built around a stream and an item to keep alive.
InitDefer ==
    /\ Init!1 /\ Init!2 /\ Init!3 /\ Init!4 /\ Init!5 /\ Init!6
    /\ Init!7 /\ Init!8 /\ Init!9 /\ Init!10 /\ Init!11 /\ Init!13
    /\ \E s \in InnerStreams :
          dd = [exists |-> TRUE, alive |-> TRUE, d |-> DeferDrop(s, "send"),
                inner |-> s, polled |-> <<>>]

\* The consumer polls the DeferDrop.
DeferPoll ==
    /\ dd.exists
    /\ Len(dd.polled) <= MaxItems
    /\ dd' = [dd EXCEPT !.polled = Append(@, DeferPollNext(dd.d)),
                        !.d.s = StreamAfterPoll(@)]
    /\ UNCHANGED <<cl, obs, inbound, wire, sv, sub, tick, ticker, loop, warnings, cv, build>>

\* The consumer drops the DeferDrop: its fields are dropped with it.
DeferDropped ==
    /\ dd.exists
    /\ dd' = [dd EXCEPT !.exists = FALSE, !.alive = FALSE]
    /\ UNCHANGED <<cl, obs, inbound, wire, sv, sub, tick, ticker, loop, warnings, cv, build>>

NextDefer == DeferPoll \/ DeferDropped

SpecDefer == InitDefer /\ [][NextDefer]_vars

\* -------------------------------------------------------------------- claims
IsPrefix(s, t) == Len(s) <= Len(t) /\ SubSeq(t, 1, Len(s)) = s

\* What the handler of a unary message is to answer: for Add(a, b) the sum
\* of a and b, as an integer.
Expected(m) ==
    IF m.tag = "AddRequest" THEN AddResponse(m.val[1] + m.val[2])
    ELSE AppVersionResponse(DefaultAppVersion)

\* What a unary call's own request comes to in this build: the expected
\* answer; for a sum beyond the operand type, the sum brought back into the
\* type where overflow is unchecked, and a channel closed without a response
\* where it is checked.
OwnResult(m) ==
    LET sum == m.val[1] + m.val[2]
    IN  IF m.tag # "AddRequest" \/ (IntMin <= sum /\ sum <= IntMax) THEN Ok(Expected(m))
        ELSE IF build = "debug" THEN ConnectionClosed
        ELSE IF sum > IntMax THEN Ok(AddResponse(sum - 2 ^ WordBits))
        ELSE Ok(AddResponse(sum + 2 ^ WordBits))

IsRpc(c) == cl[c].call \in RpcCalls \cup DirectCalls

\* C1, as claimed: a unary call completes with exactly its handler's result,
\* and exactly one response message is sent on its channel before the
\* channel is closed; Add(a, b) yields a + b and Add(40, 2) yields 42.
C1_UnaryCallYieldsHandlerResult ==
    \A c \in Calls :
        /\ IsRpc(c) => sv[c].sent <= 1
        /\ IsRpc(c) /\ sv[c].closed /\ sv[c].pc = "done" => sv[c].sent = 1
        /\ cl[c].st = "done" =>
              /\ cl[c].res = Ok(Expected(cl[c].call.msg))
              /\ sv[c].sent = 1 /\ sv[c].closed /\ wire[c] = <<>>
        /\ cl[c].st = "done" /\ cl[c].call.msg = AddRequest(40, 2) =>
              cl[c].res = Ok(AddResponse(42))

\* C2, as claimed: an Add request sent through the composed endpoint (the
\* calc client of the app client, on main's connection) returns the same
\* result as the same request on a connection typed for CalcService.
C2_ComposedEqualsDirect ==
    \A c, d \in Calls :
        /\ cl[c].st = "done" /\ cl[d].st = "done"
        /\ cl[c].call.endpoint = MainEndpoint /\ cl[c].call.client = CalcClient
        /\ cl[d].call.endpoint = DirectCalcEndpoint /\ cl[d].call.client = DirectCalcClient
        /\ cl[c].call.msg = cl[d].call.msg
        => cl[c].res = cl[d].res

\* The leaf handler a call's request selects, and the handlers it passes.
LeafOf(k) ==
    CASE k.msg.tag = "AppVersionRequest" -> "on_version"
      [] k.msg.tag = "AddRequest" -> "on_add"
      [] k.msg.tag = "TickRequest" -> "on_tick"
RouteOf(k) ==
    CASE k.msg.tag = "AppVersionRequest" -> <<"app">>
      [] k.msg.tag = "AddRequest" -> <<"app", "iroh", "calc">>
      [] k.msg.tag = "TickRequest" -> <<"app", "iroh", "clock">>

\* C3, as claimed: every accepted request is dispatched exactly once and
\* invokes exactly one leaf handler, the one its variant path selects:
\* AppVersion only on_version (passing neither iroh, calc nor clock),
\* Iroh(Calc(Add)) only on_add, Iroh(Clock(Tick)) only on_tick; no request is
\* handled by two handlers or by none.
C3_ExactlyOneLeafHandler ==
    \A c \in Calls :
        /\ sv[c].dispatched <= 1
        /\ sv[c].pc \notin {"none", "spawned"} =>
              /\ sv[c].dispatched = 1
              /\ sv[c].invoked = <<LeafOf(cl[c].call)>>
              /\ sv[c].d.trace = RouteOf(cl[c].call)

\* C4: widening a constituent value into its parent aggregate (one level, or
\* calc / clock through iroh into app) and narrowing it back yields the
\* original value; widening never fails, it yields the parent's variant.
C4_RoundTrip ==
    /\ cv.op \in {"wide", "narrowed"} => cv.wide.tag = cv.variants[1]
    /\ cv.op = "narrowed" => cv.out = Ok(cv.input)

C4_Witness ==
    /\ cv.op = "narrowed"
    /\ cv.variants = <<"Iroh", "Calc">>
    /\ cv.input = From("Add", AddRequest(40, 2))
    /\ cv.wide = Msg("Iroh", Msg("Calc", Msg("Add", AddRequest(40, 2))))
    /\ cv.out = Ok(cv.input)

\* C5: a response whose variant does not belong to a mapped client's inner
\* service, arriving on the mapped receive path, yields a MappingError as the
\* call's result: never a converted value.
C5_ForeignVariantIsMappingError ==
    cv.op = "received" /\ ~IsPrefix(cv.variants, cv.origin) =>
        cv.out = Err("MappingError")

C5_Witness ==
    /\ cv.op = "received"
    /\ cv.variants = <<"Iroh", "Calc">>
    /\ cv.origin = <<"Iroh", "Clock", "Tick">>
    /\ cv.out = Err("MappingError")

\* The ticks of the items a client's produced sequence yielded.
Ticks(items) == [i \in 1..Len(items) |-> items[i].val]
AllOk(items) == \A i \in 1..Len(items) : items[i].tag = "Ok"

\* C6: the items the client of a server-streaming call observes are a prefix
\* of the items the forwarding took from the handler's stream, and these a
\* prefix of the items the handler produced, in the same order: nothing is
\* reordered, duplicated or invented on the way.
C6_ObservedIsPrefixOfProduced ==
    \A c \in Calls :
        /\ AllOk(obs[c])
        /\ IsPrefix(Ticks(obs[c]), sub[c].taken)
        /\ IsPrefix(sub[c].taken, sub[c].produced)

C6_Witness ==
    \E c \in Calls :
        /\ Len(obs[c]) >= 3
        /\ Len(sub[c].taken) > Len(obs[c])
        /\ Len(sub[c].produced) > Len(sub[c].taken)
        /\ obs[c][1].val < obs[c][2].val /\ obs[c][2].val < obs[c][3].val

\* C7, as claimed: after the client dropped the sequence having consumed
\* N >= 1 items, at most one further wake reaches on_tick0 before its send
\* fails and its task ends.
C7_StopsWithinOneWake ==
    \A c \in Calls : Len(obs[c]) >= 1 => sub[c].wakes <= 1

LoopsAccepting ==
    \A e \in Endpoints :
        /\ loop[e] = "accept"
        /\ inbound[e] # <<>> => ENABLED Accept(e)

\* The tasks' part of C10: a call that completed has its own correct
\* response, whatever became of the other requests' tasks.
OwnResponse ==
    \A c \in Calls :
        cl[c].st = "done" => cl[c].res = OwnResult(cl[c].call.msg)

\* C10, as claimed: a failure or a delay while processing one accepted
\* request stays in that request's task: the accept loop never ends and
\* keeps accepting (an error of accept is logged and the loop goes on), and
\* every other request's task runs to its end, the call completing with its
\* own correct response.
C10_FailureConfined ==
    /\ [](LoopsAccepting /\ OwnResponse)
    /\ \A c \in Calls :
          /\ [](cl[c].st = "sent" => <>(sv[c].pc \in {"done", "failed", "panicked"}))
          /\ [](cl[c].st = "sent" /\ sv[c].pc = "done" => wire[c] # <<>>)

\* C13, as claimed: no wake is lost to a running subscriber.  Every wake is
\* answered by a read of the counter made after it and the forwarding of that
\* value, so a subscriber that has gone back to waiting for the next wake,
\* with no broadcast pending, has read and forwarded the counter's current
\* value.
C13_NoWakeIsLost ==
    \A c \in Calls :
        sub[c].pc = "wait" /\ sub[c].rx /\ ticker.pc = "sleep" => sub[c].val = tick

\* on_tick0 is suspended in its send on a full channel.
BlockedInSend(c) == sub[c].pc = "send" /\ sub[c].rx /\ Len(sub[c].chan) = TickChanCap

\* C14: no subscriber holds the counter's read lock while it is suspended in
\* its send or waits for the next wake (or once it has ended); the ticker's
\* write is held up only by a subscriber inside its read statement, which
\* ends by itself, so with any subscribers, also ones suspended for good on
\* a full channel, each sleep of the ticker ends in an increment: the
\* counter moves by 1 at a time and reaches every value up to the bound.
C14_NeverBlocksIncrementer ==
    /\ [](\A c \in Calls :
            sub[c].pc \in {"send", "notified", "wait", "done"} => ~sub[c].guard)
    /\ [](ticker.pc = "sleep" /\ tick < MaxTick /\ ~ENABLED TickWrite =>
            \E c \in Calls : sub[c].pc = "locked" /\ ENABLED ProdRead(c))
    /\ [][tick' # tick => tick' = tick + 1]_vars
    /\ <>(tick = MaxTick)

\* The counter was incremented and the wake broadcast twice over while one
\* subscriber was suspended in its send on a full channel and another
\* followed the ticks.
C14_Witness ==
    \E c, d \in Calls :
        /\ c # d
        /\ BlockedInSend(c)
        /\ sub[d].pc = "wait" /\ sub[d].val = tick
        /\ ticker.pc = "sleep"
        /\ tick > sub[c].val + 1

\* C16, as claimed: once the handler and all its clones have been dropped,
\* the ticker task increments the counter no more and broadcasts no wake.
C16_TickerStopsWithHandlers ==
    [][LiveHandlers = 0 => tick' = tick /\ ticker' = ticker]_vars

\* C17: the counter changes only in the ticker task's write, by exactly 1,
\* and the wake is broadcast after it: the k-th wake finds the counter at k,
\* the counter is the number of ticks performed and never decreases, and a
\* subscriber woken by the k-th wake reads a value of at least k.
C17_IncrementThenWake ==
    /\ [][tick' # tick =>
            /\ tick' = tick + 1
            /\ ticker.pc = "sleep" /\ ticker'.pc = "notify"
            /\ ticker'.wakes = ticker.wakes]_vars
    /\ [][ticker'.wakes # ticker.wakes =>
            ticker'.wakes = ticker.wakes + 1 /\ ticker'.wakes = tick /\ tick' = tick]_vars
    /\ [](tick = ticker.wakes + (IF ticker.pc = "notify" THEN 1 ELSE 0))
    /\ [](\A c \in Calls :
            /\ sub[c].wokenBy <= ticker.wakes
            /\ sub[c].pc \in {"send", "notified", "wait", "done"} =>
                  sub[c].val >= sub[c].wokenBy)

\* A subscriber woken by the second wake has read 3: the third increment came
\* before its read.
C17_Witness ==
    \E c \in Calls :
        /\ sub[c].wokenBy = 2
        /\ sub[c].pc = "send" /\ sub[c].val = 3
        /\ ticker.wakes = 2

\* The items on_tick0 has emitted (its send completed) and the consumer of
\* the stream has not yet taken.
Buffered(c) == Len(sub[c].produced) - Len(sub[c].taken)

\* C19: on_tick0 has never emitted more than 2 items that the consumer of
\* the stream has not yet taken; with 2 of them waiting, on_tick0 stays in
\* its send, holding the value it read and reading no other, until the
\* consumer takes an item or drops the receiver.
C19_BufferAtMostTwo ==
    /\ [](\A c \in Calls :
            /\ Buffered(c) <= 2
            /\ sub[c].pc = "send" /\ sub[c].rx /\ Buffered(c) = 2 =>
                  ~ENABLED ProdSend(c) /\ ~ENABLED ProdLock(c) /\ ~ENABLED ProdRead(c))
    /\ [][\A c \in Calls :
            /\ sub[c].pc = "send" /\ sub[c].rx /\ Buffered(c) = 2
            /\ sub'[c].taken = sub[c].taken /\ sub'[c].rx
            => /\ sub'[c].pc = "send" /\ sub'[c].val = sub[c].val
               /\ sub'[c].produced = sub[c].produced]_vars

\* on_tick0 is suspended with its fifth value while the counter has moved on:
\* four values were emitted, two of them not yet taken.
C19_Witness ==
    \E c \in Calls :
        /\ sub[c].pc = "send" /\ sub[c].rx
        /\ Len(sub[c].produced) = 4 /\ Len(sub[c].taken) = 2
        /\ sub[c].val < tick
        /\ ticker.wakes = tick

\* What the i-th poll of the stream s yields.
ExpectedPoll(s, i) ==
    IF i <= Len(s.items) THEN Some(s.items[i]) ELSE IF s.ends THEN None ELSE Pending

\* C20: a DeferDrop yields what its inner stream yields, item by item, in
\* order and with the same end, and the attached item is alive exactly as long
\* as the DeferDrop exists: it is released when the stream is dropped, also
\* when the consumer stops early, and not before.
C20_DeferDropTransparent ==
    /\ \A i \in 1..Len(dd.polled) : dd.polled[i] = ExpectedPoll(dd.inner, i)
    /\ dd.alive = dd.exists

\* The consumer took one of three items and dropped the stream: the attached
\* item is released.
C20_Witness ==
    /\ ~dd.exists /\ ~dd.alive
    /\ Len(dd.inner.items) = 3
    /\ dd.polled = <<Some(dd.inner.items[1])>>

====
